---- MODULE Spec2Model ----
(***************************************************************************)
(* Model of pymedphys/_dicom/ct/extend.py: extension of a CT series by     *)
(* duplicating its first and last slices.                                  *)
(*                                                                         *)
(* A pydicom Dataset is a mutable object; the deque holds references.  The *)
(* model keeps a heap (a sequence of records, a reference is an index into *)
(* it) so that copy.deepcopy is an allocation and an in-place assignment   *)
(* is a heap update.  Python strings are sequences of one-character        *)
(* strings.  Slice locations are integer-valued floats.                    *)
(***************************************************************************)
EXTENDS Integers, Sequences, FiniteSets, TLC

\* ---------------------------------------------------------------- bounds
\* Largest number of datasets in the caller's input collection.
MaxInput == 3
\* Input slice locations are drawn from 0..MaxPos.
MaxPos == 2
\* Largest number_of_slices passed to extend / _extend_datasets.
MaxCount == 2
\* Longest externally supplied uid list.
MaxExtUids == 4
\* Largest number_of_uids given to _generate_uids in SpecUids.
MaxUids == 11
\* Largest randomisation_length given to _generate_uids (the default of 10
\* puts 10 ** 10 beyond TLC's integers).
MaxRandLen == 2
\* utcnow() returns a value in 0..MaxClock.
MaxClock == 0

\* ------------------------------------------------- Python text primitives
Digits == <<"0", "1", "2", "3", "4", "5", "6", "7", "8", "9">>

RECURSIVE NatToStr(_)
NatToStr(n) ==
    IF n < 10 THEN <<Digits[n + 1]>>
    ELSE NatToStr(n \div 10) \o <<Digits[(n % 10) + 1]>>

\* str(i) for an int
str(i) == IF i < 0 THEN <<"-">> \o NatToStr(-i) ELSE NatToStr(i)

RECURSIVE Zeros(_)
Zeros(k) == IF k <= 0 THEN <<>> ELSE <<"0">> \o Zeros(k - 1)

\* s.zfill(width): pads on the left, after a leading sign; never truncates
zfill(s, width) ==
    IF Len(s) >= width THEN s
    ELSE IF Len(s) > 0 /\ s[1] \in {"-", "+"}
         THEN <<s[1]>> \o Zeros(width - Len(s)) \o Tail(s)
         ELSE Zeros(width - Len(s)) \o s

DigitValue(c) == CHOOSE d \in 0..9 : Digits[d + 1] = c

RECURSIVE ParseNat(_)
ParseNat(s) ==
    IF Len(s) = 0 THEN 0
    ELSE 10 * ParseNat(SubSeq(s, 1, Len(s) - 1)) + DigitValue(s[Len(s)])

\* int(s) for a decimal string
int(s) == IF Len(s) > 0 /\ s[1] = "-" THEN 0 - ParseNat(Tail(s)) ELSE ParseNat(s)

\* str(x) for an integer-valued float x: "10.0", "-5.0"
float_str(x) == str(x) \o <<".", "0">>

\* float(s) of such a string (the DS value pydicom stores for it)
float(s) ==
    IF Len(s) >= 2 /\ SubSeq(s, Len(s) - 1, Len(s)) = <<".", "0">>
    THEN int(SubSeq(s, 1, Len(s) - 2))
    ELSE int(s)

\* sep.join(items)
RECURSIVE join(_, _)
join(sep, items) ==
    IF Len(items) = 0 THEN <<>>
    ELSE IF Len(items) = 1 THEN items[1]
    ELSE items[1] \o sep \o join(sep, Tail(items))

\* a ** b
RECURSIVE Pow(_, _)
Pow(a, b) == IF b = 0 THEN 1 ELSE a * Pow(a, b - 1)

\* ------------------------------------------------------ _generate_uids
\* The namespace root every generated uid starts with.
PYMEDPHYS_ROOT_UID == <<"1", ".", "2">>

\* strftime("%Y%m%d%H%M%S%f") has 4+2+2+2+2+2+6 digits
TimeStampWidth == 20

utcnow_strftime(now) == zfill(str(now), TimeStampWidth)

\* random.randint(a, b) returns any N with a <= N <= b
randint(a, b) == a..b

\* _generate_uids(number_of_uids, randomisation_length, root), with the value
\* drawn by random.randint and the clock reading made explicit
_generate_uids(number_of_uids, randomisation_length, draw, now) ==
    LET num_of_digits == Len(str(number_of_uids))
        middle_item == zfill(str(draw), randomisation_length)
        time_stamp_item == utcnow_strftime(now)
        last_item == [i \in 1..number_of_uids |-> zfill(str(i - 1), num_of_digits)]
    IN  [i \in 1..number_of_uids |->
            join(<<".">>, <<PYMEDPHYS_ROOT_UID, middle_item, time_stamp_item,
                            last_item[i]>>)]

\* ------------------------------------------------------ deque indexing
\* dicom_datasets[i] raises IndexError unless -len <= i < len
InRange(dicom_datasets, i) == -Len(dicom_datasets) <= i /\ i < Len(dicom_datasets)

\* the reference dicom_datasets[i] (i may be negative)
At(dicom_datasets, i) ==
    IF i < 0 THEN dicom_datasets[Len(dicom_datasets) + i + 1]
    ELSE dicom_datasets[i + 1]

\* ---------------------------------------------- _convert_datasets_to_deque
_slice_location(h, ref) == h[ref].SliceLocation

\* sorted() is stable: x goes after every element whose key is <= its own
RECURSIVE InsertSorted(_, _, _)
InsertSorted(h, sorted, x) ==
    IF Len(sorted) = 0 THEN <<x>>
    ELSE IF _slice_location(h, sorted[Len(sorted)]) <= _slice_location(h, x)
         THEN Append(sorted, x)
         ELSE Append(InsertSorted(h, SubSeq(sorted, 1, Len(sorted) - 1), x),
                     sorted[Len(sorted)])

RECURSIVE SortedByLocation(_, _)
SortedByLocation(h, refs) ==
    IF Len(refs) = 0 THEN <<>>
    ELSE InsertSorted(h, SortedByLocation(h, SubSeq(refs, 1, Len(refs) - 1)),
                      refs[Len(refs)])

_convert_datasets_to_deque(h, ct_datasets) == SortedByLocation(h, ct_datasets)

\* ------------------------------------------------------ _get_append_method
\* the method name, or "ValueError" when the function raises
_get_append_method(dicom_datasets, index_to_copy) ==
    IF index_to_copy = 0 THEN "appendleft"
    ELSE IF index_to_copy = Len(dicom_datasets) \/ index_to_copy = -1 THEN "append"
    ELSE "ValueError"

\* --------------------------------------------- _generate_new_slice_locations
\* [first, first + diff, ...] after k further additions
RECURSIVE ChainLocations(_, _, _)
ChainLocations(locs, slice_diff, k) ==
    IF k <= 0 THEN locs
    ELSE ChainLocations(Append(locs, locs[Len(locs)] + slice_diff), slice_diff, k - 1)

Raise(e) == [err |-> e, locs |-> <<>>]

\* dicom_datasets[i].SliceLocation
SliceLocation(h, dicom_datasets, i) == h[At(dicom_datasets, i)].SliceLocation

\* lines 116-120: the list starts with one location, then number_of_slices - 1
\* more are chained; dicom_datasets[index_to_copy] raises when out of range
NewLocationsFrom(h, dicom_datasets, index_to_copy, number_of_slices, slice_diff) ==
    IF ~InRange(dicom_datasets, index_to_copy) THEN Raise("IndexError")
    ELSE [err |-> "none",
          locs |-> ChainLocations(
                     <<SliceLocation(h, dicom_datasets, index_to_copy) + slice_diff>>,
                     slice_diff, number_of_slices - 1)]

\* Mutant: the boundary spacing with its sign flipped.
Mutant_flipped_slice_diff(h, dicom_datasets, index_to_copy, number_of_slices) ==
    IF index_to_copy = 0
    THEN IF ~(InRange(dicom_datasets, 0) /\ InRange(dicom_datasets, 1))
         THEN Raise("IndexError")
         ELSE NewLocationsFrom(h, dicom_datasets, index_to_copy, number_of_slices,
                  SliceLocation(h, dicom_datasets, 1) - SliceLocation(h, dicom_datasets, 0))
    ELSE IF index_to_copy = Len(dicom_datasets) \/ index_to_copy = -1
    THEN IF ~(InRange(dicom_datasets, -1) /\ InRange(dicom_datasets, -2))
         THEN Raise("IndexError")
         ELSE NewLocationsFrom(h, dicom_datasets, index_to_copy, number_of_slices,
                  SliceLocation(h, dicom_datasets, -2) - SliceLocation(h, dicom_datasets, -1))
    ELSE Raise("ValueError")

\* Mutant: every new location is one spacing beyond the boundary (no chaining).
Mutant_unchained_locations(h, dicom_datasets, index_to_copy, number_of_slices) ==
    LET diff == IF index_to_copy = 0
                THEN SliceLocation(h, dicom_datasets, 0) - SliceLocation(h, dicom_datasets, 1)
                ELSE SliceLocation(h, dicom_datasets, -1) - SliceLocation(h, dicom_datasets, -2)
    IN  IF index_to_copy \notin {0, -1, Len(dicom_datasets)} THEN Raise("ValueError")
        ELSE IF Len(dicom_datasets) < 2 \/ ~InRange(dicom_datasets, index_to_copy)
        THEN Raise("IndexError")
        ELSE [err |-> "none",
              locs |-> [j \in 1..(IF number_of_slices < 1 THEN 1 ELSE number_of_slices) |->
                          SliceLocation(h, dicom_datasets, index_to_copy) + diff]]

\* Mutant: a series too short to give a spacing is extended with spacing 0
\* instead of raising.
Mutant_default_slice_diff(h, dicom_datasets, index_to_copy, number_of_slices) ==
    IF index_to_copy = 0
    THEN NewLocationsFrom(h, dicom_datasets, index_to_copy, number_of_slices,
             IF Len(dicom_datasets) < 2 THEN 0
             ELSE SliceLocation(h, dicom_datasets, 0) - SliceLocation(h, dicom_datasets, 1))
    ELSE IF index_to_copy = Len(dicom_datasets) \/ index_to_copy = -1
    THEN NewLocationsFrom(h, dicom_datasets, index_to_copy, number_of_slices,
             IF Len(dicom_datasets) < 2 THEN 0
             ELSE SliceLocation(h, dicom_datasets, -1) - SliceLocation(h, dicom_datasets, -2))
    ELSE Raise("ValueError")

\* [err, locs]: err is "none" and locs the new locations, or err names the
\* exception raised
_generate_new_slice_locations(h, dicom_datasets, index_to_copy, number_of_slices) ==
    IF index_to_copy = 0
    THEN IF ~(InRange(dicom_datasets, 0) /\ InRange(dicom_datasets, 1))
         THEN Raise("IndexError")
         ELSE NewLocationsFrom(h, dicom_datasets, index_to_copy, number_of_slices,
                  SliceLocation(h, dicom_datasets, 0) - SliceLocation(h, dicom_datasets, 1))
    ELSE IF index_to_copy = Len(dicom_datasets) \/ index_to_copy = -1
    THEN IF ~(InRange(dicom_datasets, -1) /\ InRange(dicom_datasets, -2))
         THEN Raise("IndexError")
         ELSE NewLocationsFrom(h, dicom_datasets, index_to_copy, number_of_slices,
                  SliceLocation(h, dicom_datasets, -1) - SliceLocation(h, dicom_datasets, -2))
    ELSE Raise("ValueError")

\* ------------------------------------------------- _copy_slices_and_append
\* lines 81-92, one iteration per new location.  dicom_datasets[index_to_copy]
\* is read again in each iteration, after the previous append.
RECURSIVE CopyLoop(_, _, _, _, _, _)
CopyLoop(h, dicom_datasets, index_to_copy, append_method, dataset_to_copy, locs) ==
    IF Len(locs) = 0 THEN [err |-> "none", heap |-> h, series |-> dicom_datasets]
    ELSE LET a_slice_location == Head(locs)
             image_position_patient_to_copy ==
                 [h[At(dicom_datasets, index_to_copy)].ImagePositionPatient
                     EXCEPT ![3] = float(float_str(a_slice_location))]
             new_slice ==
                 [dataset_to_copy EXCEPT
                     !.SliceLocation = float(float_str(a_slice_location)),
                     !.ImagePositionPatient = image_position_patient_to_copy]
             h2 == Append(h, new_slice)
             ref == Len(h2)
             appended == IF append_method = "appendleft"
                         THEN <<ref>> \o dicom_datasets
                         ELSE Append(dicom_datasets, ref)
         IN  CopyLoop(h2, appended, index_to_copy, append_method, dataset_to_copy,
                      Tail(locs))

\* [err, heap, series]; on an exception heap and series are as the exception
\* left them
_copy_slices_and_append(h, dicom_datasets, index_to_copy, number_of_slices) ==
    LET append_method == _get_append_method(dicom_datasets, index_to_copy)
        new_slice_locations ==
            _generate_new_slice_locations(h, dicom_datasets, index_to_copy,
                                          number_of_slices)
    IN  IF append_method = "ValueError"
        THEN [err |-> "ValueError", heap |-> h, series |-> dicom_datasets]
        ELSE IF new_slice_locations.err # "none"
        THEN [err |-> new_slice_locations.err, heap |-> h, series |-> dicom_datasets]
        ELSE CopyLoop(h, dicom_datasets, index_to_copy, append_method,
                      h[At(dicom_datasets, index_to_copy)], new_slice_locations.locs)

\* ------------------------------------------------ _refresh_instance_numbers
\* enumerate(dicom_datasets) from position i (0-based) on
RECURSIVE RefreshFrom(_, _, _)
RefreshFrom(h, dicom_datasets, i) ==
    IF i >= Len(dicom_datasets) THEN h
    ELSE RefreshFrom([h EXCEPT ![dicom_datasets[i + 1]].InstanceNumber = int(str(i))],
                     dicom_datasets, i + 1)

\* Mutant: instance numbers counted from 1.
Mutant_one_based_instance_numbers(h, dicom_datasets) ==
    [r \in 1..Len(h) |->
        IF \E i \in 1..Len(dicom_datasets) : dicom_datasets[i] = r
        THEN [h[r] EXCEPT !.InstanceNumber =
                 CHOOSE i \in 1..Len(dicom_datasets) : dicom_datasets[i] = r]
        ELSE h[r]]

\* the heap after the loop
_refresh_instance_numbers(h, dicom_datasets) == RefreshFrom(h, dicom_datasets, 0)

\* ------------------------------------------------------- _generate_new_uids
\* The randomisation_length _generate_new_uids leaves at its default.
randomisation_length == MaxRandLen

\* zip(dicom_datasets, uids) from pair i (1-based) on
RECURSIVE AssignUidsFrom(_, _, _, _)
AssignUidsFrom(h, dicom_datasets, uids, i) ==
    IF i > Len(dicom_datasets) \/ i > Len(uids) THEN h
    ELSE AssignUidsFrom([h EXCEPT ![dicom_datasets[i]].SOPInstanceUID = uids[i]],
                        dicom_datasets, uids, i + 1)

\* Mutant: the uids are handed out from the far end of the deque.
Mutant_uids_from_the_right(h, dicom_datasets, uids_none, uids, draw, now) ==
    LET the_uids == IF uids_none
                    THEN _generate_uids(Len(dicom_datasets), randomisation_length,
                                        draw, now)
                    ELSE uids
        reversed == [i \in 1..Len(dicom_datasets) |->
                        dicom_datasets[Len(dicom_datasets) + 1 - i]]
    IN  AssignUidsFrom(h, reversed, the_uids, 1)

\* uids_none says that the uids argument is None
_generate_new_uids(h, dicom_datasets, uids_none, uids, draw, now) ==
    LET the_uids == IF uids_none
                    THEN _generate_uids(Len(dicom_datasets), randomisation_length,
                                        draw, now)
                    ELSE uids
    IN  AssignUidsFrom(h, dicom_datasets, the_uids, 1)

\* --------------------------------------------------------- _extend_datasets
_extend_datasets(h, dicom_datasets, index_to_copy, number_of_slices, uids_none, uids, draw, now) ==
    LET copied == _copy_slices_and_append(h, dicom_datasets, index_to_copy,
                                          number_of_slices)
    IN  IF copied.err # "none" THEN copied
        ELSE [err |-> "none",
              heap |-> _generate_new_uids(
                           _refresh_instance_numbers(copied.heap, copied.series),
                           copied.series, uids_none, uids, draw, now),
              series |-> copied.series]

\* ------------------------------------------------------------------- extend
\* [err, heap, series]; an exception of either call propagates, and no deque
\* is returned
extend(h, ct_datasets, number_of_slices, draw1, now1, draw2, now2) ==
    LET deque == _convert_datasets_to_deque(h, ct_datasets)
        first == _extend_datasets(h, deque, 0, number_of_slices,
                                  TRUE, <<>>, draw1, now1)
    IN  IF first.err # "none" THEN first
        ELSE _extend_datasets(first.heap, first.series, -1, number_of_slices,
                              TRUE, <<>>, draw2, now2)

\* ---------------------------------------------------------------- state
VARIABLES
    heap,        \* the Dataset objects; a reference is an index
    datasets,    \* the caller's input collection (references, any order)
    series,      \* the deque of references being extended
    pc,          \* "input": the caller holds its collection; "deque": it was
                 \* sorted into a deque; "done": extend returned, or
                 \* _extend_datasets was called on the deque
    err,         \* outcome of the last call: "none", "IndexError", "ValueError"
    last,        \* the last call: its name, arguments and the state before it
    uid_call     \* SpecUids: one _generate_uids call, arguments and result

vars == <<heap, datasets, series, pc, err, last, uid_call>>

NoCall == [op |-> "none", index |-> 0, count |-> 0, uids_none |-> TRUE,
           uids |-> <<>>, heap |-> <<>>, series |-> <<>>]

NoUidCall == [n |-> 0, randomisation_length |-> 0, draw |-> 0, now |-> 0,
              done |-> FALSE, result |-> <<>>]

\* ------------------------------------------------------------ the callers
\* SOPInstanceUID of the i-th dataset the caller supplies
original_uid(i) == <<"9", ".">> \o str(i)

\* the k-th identifier of an externally supplied uids list
external_uid(k) == <<"8", ".">> \o str(k)

ExternalUids(m) == [k \in 1..m |-> external_uid(k)]

\* the random draws explored by the series specification: both ends of
\* randint's range
RandomDraws == {0, Pow(10, randomisation_length)}

\* index_to_copy values tried on a deque: both ends under each of their
\* names, the index one past the end, and (from three slices on) an interior one
Indices(dicom_datasets) ==
    {-Len(dicom_datasets), -1, 0, 1, Len(dicom_datasets) - 1, Len(dicom_datasets)}

Init ==
    /\ \E n \in 0..MaxInput : \E pos \in [1..n -> 0..MaxPos] :
          /\ heap = [i \in 1..n |->
                        [SliceLocation |-> pos[i],
                         ImagePositionPatient |-> <<0, 0, pos[i]>>,
                         InstanceNumber |-> i,
                         SOPInstanceUID |-> original_uid(i)]]
          /\ datasets = [i \in 1..n |-> i]
    /\ series = <<>>
    /\ pc = "input"
    /\ err = "none"
    /\ last = NoCall
    /\ uid_call = NoUidCall

\* deque = _convert_datasets_to_deque(datasets)
ConvertDatasetsToDeque ==
    /\ pc = "input"
    /\ series' = _convert_datasets_to_deque(heap, datasets)
    /\ pc' = "deque"
    /\ err' = "none"
    /\ last' = [NoCall EXCEPT !.op = "_convert_datasets_to_deque",
                              !.heap = heap, !.series = series]
    /\ UNCHANGED <<heap, datasets, uid_call>>

\* series = extend(datasets, number_of_slices)
Extend ==
    /\ pc = "input"
    /\ \E number_of_slices \in 0..MaxCount, draw1 \in RandomDraws,
          draw2 \in RandomDraws, now1 \in 0..MaxClock, now2 \in 0..MaxClock :
          LET r == extend(heap, datasets, number_of_slices, draw1, now1, draw2, now2)
          IN  /\ heap' = r.heap
              /\ err' = r.err
              /\ series' = IF r.err = "none" THEN r.series ELSE series
              /\ pc' = IF r.err = "none" THEN "done" ELSE pc
              /\ last' = [op |-> "extend", index |-> 0, count |-> number_of_slices,
                          uids_none |-> TRUE, uids |-> <<>>, heap |-> heap,
                          series |-> _convert_datasets_to_deque(heap, datasets)]
    /\ UNCHANGED <<datasets, uid_call>>

\* _extend_datasets(series, index_to_copy, number_of_slices, uids=uids)
CallExtendDatasets(index_to_copy, number_of_slices, uids_none, uids, draw, now) ==
    LET r == _extend_datasets(heap, series, index_to_copy, number_of_slices,
                              uids_none, uids, draw, now)
    IN  /\ heap' = r.heap
        /\ series' = r.series
        /\ err' = r.err
        /\ pc' = "done"
        /\ last' = [op |-> "_extend_datasets", index |-> index_to_copy,
                    count |-> number_of_slices, uids_none |-> uids_none,
                    uids |-> uids, heap |-> heap, series |-> series]
        /\ UNCHANGED <<datasets, uid_call>>

\* with uids left at None
ExtendDatasets ==
    /\ pc = "deque"
    /\ \E index_to_copy \in Indices(series), number_of_slices \in 0..MaxCount,
          draw \in RandomDraws, now \in 0..MaxClock :
          CallExtendDatasets(index_to_copy, number_of_slices, TRUE, <<>>, draw, now)

\* with an externally supplied uids list
ExtendDatasetsWithUids ==
    /\ pc = "deque"
    /\ \E index_to_copy \in Indices(series), number_of_slices \in 0..MaxCount,
          m \in 0..MaxExtUids :
          CallExtendDatasets(index_to_copy, number_of_slices, FALSE,
                             ExternalUids(m), 0, 0)

Next == ConvertDatasetsToDeque \/ Extend \/ ExtendDatasets \/ ExtendDatasetsWithUids

Spec == Init /\ [][Next]_vars

\* ============================================================== properties
Locations(h, refs) == [i \in 1..Len(refs) |-> h[refs[i]].SliceLocation]

Uids(h, refs) == [i \in 1..Len(refs) |-> h[refs[i]].SOPInstanceUID]

StrictlyMonotonic(xs) ==
    \/ \A i, j \in 1..Len(xs) : i < j => xs[i] < xs[j]
    \/ \A i, j \in 1..Len(xs) : i < j => xs[i] > xs[j]

PairwiseDistinct(xs) == \A i, j \in 1..Len(xs) : i # j => xs[i] # xs[j]

\* extend returned a series
ExtendReturned == last.op = "extend" /\ err = "none"

\* a direct _extend_datasets call returned normally
ExtendDatasetsReturned == last.op = "_extend_datasets" /\ err = "none"

\* the number of slices in the series before the last call
N == Len(last.series)

\* the references the last call created
IsNew(ref) == ref > Len(last.heap)

\* ----------------------------------------------------------------- C1
\* C1 as stated: for every input collection of at least two slices, the
\* sequence extend returns has strictly monotonic slice locations (no two
\* slices share a location).
C1_AnyInput ==
    (ExtendReturned /\ Len(datasets) >= 2)
        => StrictlyMonotonic(Locations(heap, series))

\* C1 amended: for every input collection of at least two slices whose slice
\* locations are pairwise distinct, the sequence extend returns has strictly
\* monotonic slice locations.
C1_DistinctInput ==
    (ExtendReturned /\ Len(datasets) >= 2
        /\ PairwiseDistinct(Locations(last.heap, datasets)))
        => StrictlyMonotonic(Locations(heap, series))

\* an unsorted input of three distinct locations, extended by two at each end
C1_Witness ==
    /\ ExtendReturned
    /\ Len(datasets) = 3
    /\ last.count = 2
    /\ PairwiseDistinct(Locations(last.heap, datasets))
    /\ Locations(last.heap, datasets)[1] > Locations(last.heap, datasets)[2]
    /\ Len(series) = 7

\* ----------------------------------------------------------------- C2
\* C2: after every _extend_datasets call that returns, and after extend, the
\* slice at position i of the sequence has InstanceNumber i, counted from 0.
C2_InstanceNumbers ==
    (ExtendReturned \/ ExtendDatasetsReturned)
        => \A i \in 1..Len(series) : heap[series[i]].InstanceNumber = i - 1

\* a head extension: every original slice moved to a new position
C2_Witness ==
    /\ ExtendDatasetsReturned
    /\ last.index = 0
    /\ last.count = 2
    /\ N = 3
    /\ Len(series) = 5
    /\ heap[series[5]].InstanceNumber # last.heap[series[5]].InstanceNumber

\* ----------------------------------------------------------------- C3
\* C3: an extension by k >= 1 at the head of a series whose first two
\* locations are p0 and p1 puts p0 - d, ..., p0 - k*d (d = p1 - p0) in front
\* of the original slices, p0 - d next to the original first slice and
\* p0 - k*d at the new end; at the tail it puts pL + e, ..., pL + k*e after
\* the original last slice, e being the difference of the last two locations.
C3_Spacing ==
    (ExtendDatasetsReturned /\ last.count >= 1)
        => LET k == last.count
               before == Locations(last.heap, last.series)
               after == Locations(heap, series)
           IN  /\ Len(series) = N + k
               /\ last.index = 0 =>
                    /\ SubSeq(series, k + 1, N + k) = last.series
                    /\ \A j \in 1..k :
                         after[k + 1 - j] = before[1] - j * (before[2] - before[1])
               /\ last.index = -1 =>
                    /\ SubSeq(series, 1, N) = last.series
                    /\ \A j \in 1..k :
                         after[N + j] = before[N] + j * (before[N] - before[N - 1])

\* two slices prepended to a series with a non-zero spacing at its head
C3_Witness ==
    /\ ExtendDatasetsReturned
    /\ last.index = 0
    /\ last.count = 2
    /\ N = 3
    /\ Locations(last.heap, last.series)[1] # Locations(last.heap, last.series)[2]
    /\ Locations(last.heap, last.series)[2] = Locations(last.heap, last.series)[3]

C5_UidsDistinct ==
    (/\ ExtendDatasetsReturned
     /\ PairwiseDistinct(Uids(last.heap, last.series))
     /\ last.uids_none \/ Len(last.uids) = Len(series) - N)
        => /\ PairwiseDistinct(Uids(heap, series))
           /\ \A i \in 1..Len(series) :
                IsNew(series[i])
                    => heap[series[i]].SOPInstanceUID
                          # last.heap[At(last.series, last.index)].SOPInstanceUID

\* ----------------------------------------------------------------- C6
\* C6: an extension given a supplied identifier sequence of the wrong length
\* fails, and leaves the series and every record as they were.  (The length
\* is wrong here under every reading: it is neither the requested count, nor
\* the number of slices created, nor the length of the resulting series.)
C6_WrongLengthFails ==
    (/\ last.op = "_extend_datasets"
     /\ ~last.uids_none
     /\ last.index \in {0, -1}
     /\ N >= 2
     /\ Len(last.uids) \notin {last.count, 1, N + last.count, N + 1})
        => /\ err # "none"
           /\ heap = last.heap
           /\ series = last.series

\* ----------------------------------------------------------------- C7
\* C7: with fewer than two slices, extending the head or the tail fails with
\* the error of a missing slice (IndexError), and the series and every record
\* are exactly as they were before the call.
C7_TooFewSlices ==
    /\ (last.op = "_extend_datasets" /\ N < 2 /\ last.index \in {0, -1})
          => (err = "IndexError" /\ heap = last.heap /\ series = last.series)
    /\ (last.op = "extend" /\ Len(datasets) < 2)
          => (err = "IndexError" /\ heap = last.heap /\ series = <<>>)

\* the tail of a one-slice series
C7_Witness ==
    /\ last.op = "_extend_datasets"
    /\ N = 1
    /\ last.index = -1
    /\ last.count = 2
    /\ err = "IndexError"

\* ----------------------------------------------------------------- C8
\* C8: for every count >= 0 one extension adds exactly count slices, so
\* extend returns N + 2 * count slices for an input of N, and a count of zero
\* adds no slice.
C8_CountAdded ==
    /\ ExtendDatasetsReturned => Len(series) = N + last.count
    /\ ExtendReturned => Len(series) = Len(datasets) + 2 * last.count

\* ----------------------------------------------------------------- C10
\* C10: on a series of at least two slices an index is accepted exactly when
\* it is the first index (0) or the last (len - 1, or -1), and the extension
\* is made at that end; every other index, the collection length included,
\* fails with the boundary error (ValueError) and leaves the series unmodified.
C10_BoundarySelector ==
    (last.op = "_extend_datasets" /\ N >= 2)
        => IF last.index \in {0, N - 1, -1}
           THEN /\ err = "none"
                /\ IF last.index = 0
                   THEN SubSeq(series, Len(series) - N + 1, Len(series)) = last.series
                   ELSE SubSeq(series, 1, N) = last.series
           ELSE last.index # -N
                   => (err = "ValueError" /\ heap = last.heap /\ series = last.series)

\* -------------------------------------------- specification of _generate_uids
InitUids ==
    /\ heap = <<>> /\ datasets = <<>> /\ series = <<>>
    /\ pc = "input" /\ err = "none" /\ last = NoCall
    /\ \E n \in 0..MaxUids, L \in 1..MaxRandLen, now \in 0..MaxClock :
         \E draw \in randint(0, Pow(10, L)) :
            uid_call = [n |-> n, randomisation_length |-> L, draw |-> draw,
                        now |-> now, done |-> FALSE, result |-> <<>>]

GenerateUids ==
    /\ ~uid_call.done
    /\ uid_call' = [uid_call EXCEPT
                      !.done = TRUE,
                      !.result = _generate_uids(uid_call.n,
                                     uid_call.randomisation_length,
                                     uid_call.draw, uid_call.now)]
    /\ UNCHANGED <<heap, datasets, series, pc, err, last>>

NextUids == GenerateUids

SpecUids == InitUids /\ [][NextUids]_vars

\* ----------------------------------------------------------------- C9
\* the fields of s between its dots
RECURSIVE SplitDots(_)
SplitDots(s) ==
    IF \A i \in 1..Len(s) : s[i] # "."
    THEN <<s>>
    ELSE LET k == CHOOSE i \in 1..Len(s) :
                     s[i] = "." /\ \A j \in 1..(i - 1) : s[j] # "."
         IN  <<SubSeq(s, 1, k - 1)>> \o SplitDots(SubSeq(s, k + 1, Len(s)))

\* the fields of a uid after its root
UidFields(uid) == SplitDots(SubSeq(uid, Len(PYMEDPHYS_ROOT_UID) + 2, Len(uid)))

HasRoot(uid) ==
    /\ Len(uid) > Len(PYMEDPHYS_ROOT_UID)
    /\ SubSeq(uid, 1, Len(PYMEDPHYS_ROOT_UID)) = PYMEDPHYS_ROOT_UID
    /\ uid[Len(PYMEDPHYS_ROOT_UID) + 1] = "."

\* C9: for every n >= 0 and every value of the random draw the generator
\* returns exactly n identifiers, all with the root, one randomised component
\* of exactly randomisation_length digits and one timestamp, the ordinal
\* suffix zero-padded to the digit width of n, and mutually distinct.
C9_UidShape ==
    uid_call.done
        => LET r == uid_call.result
           IN  /\ Len(r) = uid_call.n
               /\ PairwiseDistinct(r)
               /\ \A i \in 1..Len(r) :
                    /\ HasRoot(r[i])
                    /\ Len(UidFields(r[i])) = 3
                    /\ UidFields(r[i])[1] = UidFields(r[1])[1]
                    /\ Len(UidFields(r[i])[1]) = uid_call.randomisation_length
                    /\ UidFields(r[i])[2] = UidFields(r[1])[2]
                    /\ Len(UidFields(r[i])[3]) = Len(str(uid_call.n))
                    /\ int(UidFields(r[i])[3]) = i - 1
====
